---- MODULE Spec2Model ----
(***************************************************************************)
(* A model of the filters and detectors of q/sfx.hpp (cycfi::q).           *)
(* zero_cross, peak and onset only compare their inputs: their samples,    *)
(* thresholds and envelopes are exact integers in units of                 *)
(* onset::hysteresis (0.005).  dynamic_lowpass and dynamic_smoother        *)
(* compute in float: they are modelled over a binary floating-point format *)
(* of MantBits mantissa bits, rounding to nearest, ties to even, in which  *)
(* 1.0 is 2^FracBits units.  fast_downsample is modelled for an unsigned   *)
(* sample type of SampleBits bits.                                         *)
(***************************************************************************)
EXTENDS Integers, Naturals, Sequences, FiniteSets, TLC

\* ------------------------------------------------------------------ bounds
\* zero_cross samples range over -MaxSample..MaxSample.
MaxSample == 3
\* onset samples and envelopes range over -MaxLevel..MaxLevel.
MaxLevel == 2
\* zero_cross hysteresis ranges over -MaxHysteresis..MaxHysteresis.
MaxHysteresis == 2
\* The debounce window min_samples ranges over 0..MaxMinSamples.
MaxMinSamples == 3
\* operator() is not called once the sample counter has exceeded MaxCount.
MaxCount == 5

\* fast_downsample's sample type T has SampleBits bits.
SampleBits == 3
\* The float format: MantBits bits of mantissa, 2^FracBits units to 1.0.
MantBits == 3
FracBits == 2

Samples == (-MaxSample)..MaxSample
Levels == (-MaxLevel)..MaxLevel
Hystereses == (-MaxHysteresis)..MaxHysteresis
MinSamples == 0..MaxMinSamples

\* ------------------------------------------------------------------ state
VARIABLES
    zc_hysteresis,   \* zero_cross::_hysteresis (const)
    zc_min_samples,  \* zero_cross::_min_samples (const)
    zc_state,        \* zero_cross::_state
    zc_count,        \* zero_cross::_count
    zc_last,         \* the last zero_cross call: sample, pre-call state and counter, returned value
    zc_since,        \* calls made since the last call after which edge() was true (-1: none yet)
    zc_gap,          \* at the last such call, its distance to the one before it (-1: none)
    zc_band          \* the current run of samples strictly inside the hysteresis band

VARIABLES
    on_min_samples,  \* onset::_min_samples (const)
    on,              \* the onset instance: _pk._cmp.y, _state, _count, _current_peak
    on_last,         \* the last onset operation: inputs, pre-call fields, detector output, returned value
    on_since,        \* operator() calls made since the last state transition (-1: none yet)
    on_trans,        \* the state set by the last state transition
    on_gap,          \* at the last state transition, its distance in calls to the one before (-1: none)
    on_rearm,        \* "armed" from reset() until the next qualifying sample, then "fired" for that call
    on_trig          \* the samples of the last two quiet->active transitions since the last reset()

VARIABLES
    ref,             \* a second onset instance with the same _min_samples, left freshly constructed
    rp_phase,        \* "prefix": on is fed arbitrary samples; "replay": on was reset, both are fed alike
    rp_out           \* the values the last replayed call returned: <<ref's, on's>>

VARIABLES
    st_calls         \* calls made so far on a zero_cross and an onset that are fed side by side

VARIABLES
    dl_y,            \* dynamic_lowpass::y
    dl_last,         \* the last dynamic_lowpass operation: arguments, pre-call y, returned value
    dl_set           \* the value the most recent apply or assignment left in y (0 when fresh)

VARIABLES
    ds,              \* the dynamic_smoother instance: sense, wc, g0, low1, low2
    ds_last,         \* the last dynamic_smoother operation: sample, pre-call fields, gain, returned value
    ds_calls,        \* operator() calls made so far, counted up to 2
    ds_before        \* the instance as it was before the re-tunes made since the last operator() call

VARIABLES
    fd_signed,       \* whether fast_downsample's sample type T is signed (const)
    fd_x,            \* fast_downsample::x
    fd_last,         \* the last fast_downsample call: s1, s2, pre-call x, returned value
    fd_prev,         \* the s2 of the call before the last one, if there was one
    fd_run           \* the current run of calls with s1 = s2 = v: v and its length, counted up to 2

fd_vars == <<fd_signed, fd_x, fd_last, fd_prev, fd_run>>
dl_vars == <<dl_y, dl_last, dl_set>>
ds_vars == <<ds, ds_last, ds_calls, ds_before>>
zc_vars == <<zc_hysteresis, zc_min_samples, zc_state, zc_count, zc_last, zc_since, zc_gap, zc_band>>
on_vars == <<on_min_samples, on, on_last, on_since, on_trans, on_gap, on_rearm, on_trig>>
rp_vars == <<ref, rp_phase, rp_out, st_calls>>

vars == <<zc_vars, on_vars, rp_vars, dl_vars, ds_vars, fd_vars>>

\* ------------------------------------------------------------- zero_cross
\* bool -> float conversion of the returned _state.
BoolToFloat(b) == IF b THEN 1 ELSE 0

\* Mutant: the debounce comparison the wrong way round (_count++ > _min_samples).
ZcDebounced_Flipped(count, min_samples) == count > min_samples

\* if (_count++ < _min_samples) return _state;
ZcDebounced(count, min_samples) == count < min_samples

\* s > _hysteresis && !_state
ZcRises(s, hysteresis, state) == s > hysteresis /\ ~state

\* Mutant: the falling threshold without its sign (s < _hysteresis).
ZcFalls_NoNegate(s, hysteresis, state) == s < hysteresis /\ state

\* s < -_hysteresis && _state
ZcFalls(s, hysteresis, state) == s < -hysteresis /\ state

\* _state after operator()(s)
ZcNextState(s, hysteresis, min_samples, state, count) ==
    IF ZcDebounced(count, min_samples) THEN state
    ELSE IF ZcRises(s, hysteresis, state) THEN TRUE
    ELSE IF ZcFalls(s, hysteresis, state) THEN FALSE
    ELSE state

\* Mutant: the high->low branch forgets _count = 0.
ZcNextCount_NoResetOnFall(s, hysteresis, min_samples, state, count) ==
    IF ZcDebounced(count, min_samples) THEN count + 1
    ELSE IF ZcRises(s, hysteresis, state) THEN 0
    ELSE count + 1

\* Mutant: the debounce test reads _count without incrementing it.
ZcNextCount_NoIncrement(s, hysteresis, min_samples, state, count) ==
    IF ZcDebounced(count, min_samples) THEN count
    ELSE IF ZcRises(s, hysteresis, state) THEN 0
    ELSE IF ZcFalls(s, hysteresis, state) THEN 0
    ELSE count + 1

\* _count after operator()(s): post-incremented, then cleared by a transition
ZcNextCount(s, hysteresis, min_samples, state, count) ==
    IF ZcDebounced(count, min_samples) THEN count + 1
    ELSE IF ZcRises(s, hysteresis, state) THEN 0
    ELSE IF ZcFalls(s, hysteresis, state) THEN 0
    ELSE count + 1

\* bool edge() const { return _count == 0; }
ZcEdgeOf(count) == count = 0

edge == ZcEdgeOf(zc_count)

NoCall == [op |-> "none", s |-> 0, pre_state |-> FALSE, pre_count |-> 0, ret |-> 0]
NoBand == [len |-> 0, start |-> FALSE]

\* zero_cross(hysteresis, min_period, sps): _state = 0, _count = 0
ZcInit ==
    /\ zc_hysteresis \in Hystereses
    /\ zc_min_samples \in MinSamples
    /\ zc_state = FALSE
    /\ zc_count = 0
    /\ zc_last = NoCall
    /\ zc_since = -1
    /\ zc_gap = -1
    /\ zc_band = NoBand

InBand(s, hysteresis) == -hysteresis < s /\ s < hysteresis

\* float zero_cross::operator()(float s)
ZeroCrossCall(s) ==
    /\ zc_count <= MaxCount
    /\ zc_state' = ZcNextState(s, zc_hysteresis, zc_min_samples, zc_state, zc_count)
    /\ zc_count' = ZcNextCount(s, zc_hysteresis, zc_min_samples, zc_state, zc_count)
    /\ zc_last' = [op |-> "call", s |-> s, pre_state |-> zc_state, pre_count |-> zc_count,
                   ret |-> BoolToFloat(zc_state')]
    /\ LET d == IF zc_since = -1 THEN -1 ELSE zc_since + 1
       IN IF ZcEdgeOf(zc_count')
          THEN zc_since' = 0 /\ zc_gap' = d
          ELSE zc_since' = d /\ zc_gap' = zc_gap
    /\ zc_band' = IF InBand(s, zc_hysteresis)
                  THEN [len |-> zc_band.len + 1,
                        start |-> IF zc_band.len = 0 THEN zc_state ELSE zc_band.start]
                  ELSE NoBand
    /\ UNCHANGED <<zc_hysteresis, zc_min_samples>>

\* ------------------------------------------------------- peak and onset
\* onset::droop = 0.8f, as the fraction DroopNum / DroopDen.
DroopNum == 4
DroopDen == 5
\* onset::hysteresis = 0.005f: the unit in which samples and envelopes are counted.
OnsetHysteresis == 1

\* schmitt_trigger::operator()(pos, neg) of q/fx.hpp: the output goes high when
\* pos rises above neg + hysteresis, low when pos falls below neg - hysteresis,
\* and is otherwise retained.
SchmittTrigger(y, pos, neg, hysteresis) ==
    IF ~y /\ pos > neg + hysteresis THEN TRUE
    ELSE IF y /\ pos < neg - hysteresis THEN FALSE
    ELSE y

\* peak::operator()(s, env): _cmp(s, env * _droop), for the peak onset holds
\* (droop, hysteresis).  Both sides are multiplied by DroopDen, which leaves
\* every comparison as it is.
PeakCall(y, s, env) ==
    SchmittTrigger(y, DroopDen * s, DroopNum * env, DroopDen * OnsetHysteresis)

\* Mutant: the debounce comparison the wrong way round (_count++ > _min_samples).
OnDebounced_Flipped(count, min_samples) == count > min_samples

\* if (_count++ < _min_samples) return _state;
OnDebounced(count, min_samples) == count < min_samples

\* Mutant: the latch comparison is not strict (_current_peak <= s).
OnLatches_NotStrict(current_peak, s) == current_peak <= s

\* Mutant: the latch comparison the wrong way round (_current_peak > s).
OnLatches_Reversed(current_peak, s) == current_peak > s

\* Mutant: the latch comparison is missing.
OnLatches_Always(current_peak, s) == TRUE

\* if (_current_peak < s)
OnLatches(current_peak, s) == current_peak < s

\* onset(min_period, sps): _pk's comparator low, _state = 0, _count = 0, _current_peak = 0
OnsetFresh == [y |-> FALSE, state |-> FALSE, count |-> 0, peak |-> 0]

\* Mutant: the detector is evaluated before the debounce test.
OnsetStep_DetectorFirst(o, min_samples, s, env) ==
    LET pk == PeakCall(o.y, s, env)
    IN  IF OnDebounced(o.count, min_samples)
        THEN [o EXCEPT !.y = pk, !.count = @ + 1]
        ELSE IF ~o.state /\ pk
             THEN IF OnLatches(o.peak, s)
                  THEN [y |-> pk, state |-> TRUE, count |-> 0, peak |-> s]
                  ELSE [o EXCEPT !.y = pk, !.count = @ + 1]
             ELSE IF o.state /\ ~pk
             THEN [o EXCEPT !.y = pk, !.state = FALSE, !.count = 0]
             ELSE [o EXCEPT !.y = pk, !.count = @ + 1]

\* The instance after bool onset::operator()(float s, float env)
OnsetStep(o, min_samples, s, env) ==
    IF OnDebounced(o.count, min_samples)
    THEN [o EXCEPT !.count = @ + 1]
    ELSE LET pk == PeakCall(o.y, s, env)
         IN  IF ~o.state /\ pk
             THEN IF OnLatches(o.peak, s)
                  THEN [y |-> pk, state |-> TRUE, count |-> 0, peak |-> s]
                  ELSE [o EXCEPT !.y = pk, !.count = @ + 1]
             ELSE IF o.state /\ ~pk
             THEN [o EXCEPT !.y = pk, !.state = FALSE, !.count = 0]
             ELSE [o EXCEPT !.y = pk, !.count = @ + 1]

\* The instance after void onset::reset()
OnsetAfterReset(o) == [o EXCEPT !.peak = 0]

\* float peak_val() const
peak_val == on.peak

NoOnsetCall ==
    [op |-> "none", s |-> 0, env |-> 0, pk |-> FALSE, pre_y |-> FALSE, pre_state |-> FALSE,
     pre_count |-> 0, pre_peak |-> 0, ret |-> FALSE]

\* A sample that qualifies whatever the comparator held: positive, and above
\* the drooped envelope by more than the hysteresis.
Qualifies(s, env) == s > 0 /\ DroopDen * s > DroopNum * env + DroopDen * OnsetHysteresis

OnsetInit ==
    /\ on_min_samples \in MinSamples
    /\ on = OnsetFresh
    /\ on_last = NoOnsetCall
    /\ on_since = -1
    /\ on_trans = FALSE
    /\ on_gap = -1
    /\ on_rearm = "none"
    /\ on_trig = [n |-> 0, prev |-> 0, cur |-> 0]

\* bool onset::operator()(float s, float env)
OnsetCall(s, env) ==
    /\ on.count <= MaxCount
    /\ on' = OnsetStep(on, on_min_samples, s, env)
    /\ on_last' = [op |-> "call", s |-> s, env |-> env, pk |-> on'.y, pre_y |-> on.y,
                   pre_state |-> on.state, pre_count |-> on.count, pre_peak |-> on.peak,
                   ret |-> on'.state]
    /\ LET d == IF on_since = -1 THEN -1 ELSE on_since + 1
       IN IF on'.state # on.state
          THEN on_since' = 0 /\ on_gap' = d /\ on_trans' = on'.state
          ELSE on_since' = d /\ on_gap' = on_gap /\ on_trans' = on_trans
    /\ on_rearm' = IF on_rearm = "armed"
                   THEN (IF Qualifies(s, env) THEN "fired" ELSE "armed")
                   ELSE "none"
    /\ on_trig' = IF ~on.state /\ on'.state
                  THEN [n |-> IF on_trig.n = 0 THEN 1 ELSE 2, prev |-> on_trig.cur, cur |-> s]
                  ELSE on_trig
    /\ UNCHANGED on_min_samples

\* void onset::reset()
OnsetReset ==
    /\ on' = OnsetAfterReset(on)
    /\ on_last' = [op |-> "reset", s |-> 0, env |-> 0, pk |-> on.y, pre_y |-> on.y,
                   pre_state |-> on.state, pre_count |-> on.count, pre_peak |-> on.peak,
                   ret |-> FALSE]
    /\ on_rearm' = "armed"
    /\ on_trig' = [n |-> 0, prev |-> 0, cur |-> 0]
    /\ UNCHANGED <<on_min_samples, on_since, on_trans, on_gap>>

\* ----------------------------------------------------------------- replay
\* Two onset instances with the same configuration: ref stays freshly
\* constructed while on processes arbitrary samples and is then reset();
\* from there on both are fed the same samples.
ReplayInit ==
    /\ ref = OnsetFresh
    /\ rp_phase = "prefix"
    /\ rp_out = <<FALSE, FALSE>>
    /\ st_calls = 0

\* on.operator()(s, env) before the replay
ReplayPrefixCall(s, env) ==
    /\ rp_phase = "prefix"
    /\ on.count <= MaxCount
    /\ on' = OnsetStep(on, on_min_samples, s, env)
    /\ UNCHANGED <<ref, rp_phase, rp_out, st_calls>>

\* on.reset(), which starts the replay
ReplayReset ==
    /\ rp_phase = "prefix"
    /\ on' = OnsetAfterReset(on)
    /\ rp_phase' = "replay"
    /\ UNCHANGED <<ref, rp_out, st_calls>>

\* ref.operator()(s, env) and on.operator()(s, env) with the same sample
ReplayCall(s, env) ==
    /\ rp_phase = "replay"
    /\ on.count <= MaxCount /\ ref.count <= MaxCount
    /\ ref' = OnsetStep(ref, on_min_samples, s, env)
    /\ on' = OnsetStep(on, on_min_samples, s, env)
    /\ rp_out' = <<ref'.state, on'.state>>
    /\ UNCHANGED <<rp_phase, st_calls>>

\* ------------------------------------------------------------------ float
Abs(v) == IF v < 0 THEN -v ELSE v
Pow2(n) == 2 ^ n
RECURSIVE Log2(_)
Log2(q) == IF q < 2 THEN 0 ELSE 1 + Log2(q \div 2)

\* 1.0f
One == Pow2(FracBits)

\* The distance between neighbouring floats at magnitude a.
Spacing(a) == IF a < Pow2(MantBits) THEN 1 ELSE Pow2(Log2(a) - MantBits + 1)

\* v is a value of the format.
Representable(v) == Abs(v) % Spacing(Abs(v)) = 0

\* The float nearest to n/d (d # 0), ties to the even mantissa.
Rnd(n, d) ==
    LET neg   == (n < 0) # (d < 0)
        an    == Abs(n)
        ad    == Abs(d)
        sp    == Spacing(an \div ad)
        lower == (an \div (ad * sp)) * sp
        rest  == 2 * (an - lower * ad)
        mag   == IF rest < sp * ad THEN lower
                 ELSE IF rest > sp * ad THEN lower + sp
                 ELSE IF (lower \div sp) % 2 = 0 THEN lower ELSE lower + sp
    IN  IF neg THEN -mag ELSE mag

\* float a + b, a - b, a * b, a / b
FAdd(a, b) == Rnd(a + b, 1)
FSub(a, b) == Rnd(a - b, 1)
FMul(a, b) == Rnd(a * b, One)
FDiv(a, b) == Rnd(a * One, b)

\* The floats of magnitude up to 4.0 that the filters are fed.
Floats == {v \in (-(4 * One))..(4 * One) : Representable(v)}

\* -------------------------------------------------------- fast_downsample
\* The values of the sample type T.
SampleRange(signed) ==
    IF signed THEN (-Pow2(SampleBits - 1))..(Pow2(SampleBits - 1) - 1)
    ELSE 0..(Pow2(SampleBits) - 1)

\* The conversion of an int to T.
ToSample(v, signed) ==
    IF signed THEN ((v + Pow2(SampleBits - 1)) % Pow2(SampleBits)) - Pow2(SampleBits - 1)
    ELSE v % Pow2(SampleBits)

\* v >> k (arithmetic on a negative v)
Shr(v, k) == v \div Pow2(k)

\* Mutant: x is assigned before out is computed from it.
FdOutput_NewRemainder(x, s1, s2, signed) ==
    ToSample(Shr(s2, 2) + Shr(s1, 1) + Shr(s2, 2), signed)

\* auto out = x + (s1 >> 1); x = s2 >> 2; return out + x;
FdOutput(x, s1, s2, signed) == ToSample(x + Shr(s1, 1) + ToSample(Shr(s2, 2), signed), signed)

\* Mutant: the remainder is half of s2 (s2 >> 1).
FdRemainder_Half(s2, signed) == ToSample(Shr(s2, 1), signed)

\* x = s2 >> 2
FdRemainder(s2, signed) == ToSample(Shr(s2, 2), signed)

NoFdCall == [op |-> "none", s1 |-> 0, s2 |-> 0, pre_x |-> 0, out |-> 0]

\* T x = 0.0f
FdInit ==
    /\ fd_signed \in BOOLEAN
    /\ fd_x = 0
    /\ fd_last = NoFdCall
    /\ fd_prev = [set |-> FALSE, s2 |-> 0]
    /\ fd_run = [len |-> 0, v |-> 0]

\* T fast_downsample::operator()(T s1, T s2)
FdCall(s1, s2) ==
    /\ fd_x' = FdRemainder(s2, fd_signed)
    /\ fd_last' = [op |-> "call", s1 |-> s1, s2 |-> s2, pre_x |-> fd_x,
                   out |-> FdOutput(fd_x, s1, s2, fd_signed)]
    /\ fd_prev' = IF fd_last.op = "call" THEN [set |-> TRUE, s2 |-> fd_last.s2] ELSE fd_prev
    /\ fd_run' = IF s1 # s2 THEN [len |-> 0, v |-> 0]
                 ELSE IF fd_run.len > 0 /\ fd_run.v = s1 THEN [len |-> 2, v |-> s1]
                 ELSE [len |-> 1, v |-> s1]
    /\ UNCHANGED fd_signed

\* -------------------------------------------------------- dynamic_lowpass
\* Mutant: the difference the wrong way round (y += a * (y - s)).
DlApplied_SwappedDiff(y, s, a) == FAdd(y, FMul(a, FSub(y, s)))

\* y += a * (s - y)
DlApplied(y, s, a) == FAdd(y, FMul(a, FSub(s, y)))

NoDlCall == [op |-> "none", s |-> 0, a |-> 0, pre_y |-> 0, ret |-> 0]

\* float y = 0.0f
DlInit ==
    /\ dl_y = 0
    /\ dl_last = NoDlCall
    /\ dl_set = 0

\* float dynamic_lowpass::operator()(float s, float a)
DlApply(s, a) ==
    /\ dl_y' = DlApplied(dl_y, s, a)
    /\ dl_last' = [op |-> "apply", s |-> s, a |-> a, pre_y |-> dl_y, ret |-> dl_y']
    /\ dl_set' = dl_y'

\* float dynamic_lowpass::operator()() const
DlQuery ==
    /\ dl_last' = [op |-> "query", s |-> 0, a |-> 0, pre_y |-> dl_y, ret |-> dl_y]
    /\ UNCHANGED <<dl_y, dl_set>>

\* dynamic_lowpass& dynamic_lowpass::operator=(float y_)
DlAssign(v) ==
    /\ dl_y' = v
    /\ dl_last' = [op |-> "assign", s |-> v, a |-> 0, pre_y |-> dl_y, ret |-> 0]
    /\ dl_set' = v

\* The coefficients apply is called with: 0, 0.5 and 1.
Coefficients == {0, One \div 2, One}

\* ------------------------------------------------------- dynamic_smoother
\* wc = base / sps is kept in 24ths; the cutoffs modelled are 1/12, 1/8, 1/4
\* and 3/8 of the sampling rate.
Cutoffs == {2, 3, 6, 9}

\* std::tan(pi * wc), as the float nearest to a rational within 1e-4 of it.
TanPi(wc) ==
    CASE wc = 2 -> Rnd(15 * One, 56)
      [] wc = 3 -> Rnd(29 * One, 70)
      [] wc = 6 -> One
      [] wc = 9 -> Rnd(70 * One, 29)

\* g0 = 2.0f * gc / (1.0f + gc), gc = std::tan(pi * wc)
G0Of(wc) == FDiv(FMul(2 * One, TanPi(wc)), FAdd(One, TanPi(wc)))

\* The sensitivities a smoother is constructed with: -0.5, 0 and the default 0.5.
Sensitivities == {-(One \div 2), 0, One \div 2}

\* dynamic_smoother(base, sensitivity, sps): sense(sensitivity * 4.0f), wc, g0; low1 = low2 = 0
DsConstructed(wc, sensitivity) ==
    [sense |-> FMul(sensitivity, 4 * One), wc |-> wc, g0 |-> G0Of(wc), low1 |-> 0, low2 |-> 0]

\* Mutant: the gain is not clamped to 1.
DsGain_NoClamp(d) == FAdd(d.g0, FMul(d.sense, Abs(FSub(d.low1, d.low2))))

\* g = std::min(g0 + sense * std::abs(low1 - low2), 1.0f)
DsGain(d) ==
    LET g == FAdd(d.g0, FMul(d.sense, Abs(FSub(d.low1, d.low2))))
    IN  IF One < g THEN One ELSE g

\* low1 = lowlz + g * (s - lowlz)
DsLow1(d, s) == FAdd(d.low1, FMul(DsGain(d), FSub(s, d.low1)))

\* low2 = low2z + g * (low1 - low2z)
DsLow2(d, s) == FAdd(d.low2, FMul(DsGain(d), FSub(DsLow1(d, s), d.low2)))

\* Mutant: the updated second stage is returned.
DsOutput_PostUpdate(d, s) == DsLow2(d, s)

\* return low2z
DsOutput(d, s) == d.low2

\* The instance after float dynamic_smoother::operator()(float s)
DsStep(d, s) == [d EXCEPT !.low1 = DsLow1(d, s), !.low2 = DsLow2(d, s)]

\* Mutant: the re-tune also clears the two stages.
DsRetuned_ClearsStages(d, wc) == [d EXCEPT !.wc = wc, !.g0 = G0Of(wc), !.low1 = 0, !.low2 = 0]

\* The instance after void dynamic_smoother::base_frequency(base, sps)
DsRetuned(d, wc) == [d EXCEPT !.wc = wc, !.g0 = G0Of(wc)]

NoDsCall ==
    [op |-> "none", s |-> 0, pre |-> DsConstructed(6, 0), g |-> 0, ret |-> 0,
     tuned |-> FALSE, g0_before |-> 0, ret_before |-> 0]

DsInit ==
    /\ \E wc \in Cutoffs, sensitivity \in Sensitivities : ds = DsConstructed(wc, sensitivity)
    /\ ds_last = NoDsCall
    /\ ds_calls = 0
    /\ ds_before = [set |-> FALSE, d |-> DsConstructed(6, 0)]

\* float dynamic_smoother::operator()(float s); the stages are kept within
\* the magnitude the model's floats cover.
DsCall(s) ==
    /\ Abs(ds.low1) <= 4 * One /\ Abs(ds.low2) <= 4 * One
    /\ ds' = DsStep(ds, s)
    /\ ds_last' = [op |-> "call", s |-> s, pre |-> ds, g |-> DsGain(ds), ret |-> DsOutput(ds, s),
                   tuned |-> ds_before.set,
                   g0_before |-> IF ds_before.set THEN ds_before.d.g0 ELSE ds.g0,
                   ret_before |-> IF ds_before.set THEN DsOutput(ds_before.d, s)
                                  ELSE DsOutput(ds, s)]
    /\ ds_calls' = IF ds_calls < 2 THEN ds_calls + 1 ELSE ds_calls
    /\ ds_before' = [set |-> FALSE, d |-> DsConstructed(6, 0)]

\* void dynamic_smoother::base_frequency(frequency base, std::uint32_t sps)
DsTune(wc) ==
    /\ ds' = DsRetuned(ds, wc)
    /\ ds_last' = [op |-> "tune", s |-> 0, pre |-> ds, g |-> 0, ret |-> 0,
                   tuned |-> FALSE, g0_before |-> 0, ret_before |-> 0]
    /\ ds_before' = IF ds_before.set THEN ds_before ELSE [set |-> TRUE, d |-> ds]
    /\ UNCHANGED ds_calls

\* The samples a smoother is fed: -1, 0 and 1.
SmootherSamples == {-One, 0, One}

\* --------------------------------------------------------- specifications
DlIdle == DlInit
FdIdle == FdInit /\ fd_signed = FALSE
DsIdle == DsInit /\ ds = DsConstructed(6, 0)

\* A zero_cross instance under arbitrary samples.
InitZC == ZcInit /\ OnsetInit /\ on_min_samples = 0 /\ ReplayInit /\ DlIdle /\ DsIdle /\ FdIdle

NextZC == (\E s \in Samples : ZeroCrossCall(s)) /\ UNCHANGED <<on_vars, rp_vars, dl_vars, ds_vars, fd_vars>>

SpecZC == InitZC /\ [][NextZC]_vars

\* An onset instance under arbitrary samples, envelopes and reset() calls.
InitOnset ==
    OnsetInit /\ ZcInit /\ zc_hysteresis = 0 /\ zc_min_samples = 0 /\ ReplayInit /\ DlIdle /\ DsIdle /\ FdIdle

NextOnset ==
    \/ (\E s \in Levels, env \in Levels : OnsetCall(s, env)) /\ UNCHANGED <<zc_vars, rp_vars, dl_vars, ds_vars, fd_vars>>
    \/ OnsetReset /\ UNCHANGED <<zc_vars, rp_vars, dl_vars, ds_vars, fd_vars>>

SpecOnset == InitOnset /\ [][NextOnset]_vars

\* A used and reset onset instance replayed beside a fresh one.
InitReplay == InitOnset

NextReplay ==
    \/ (\E s \in Levels, env \in Levels : ReplayPrefixCall(s, env))
          /\ UNCHANGED <<zc_vars, dl_vars, ds_vars, fd_vars, on_min_samples, on_last, on_since, on_trans, on_gap, on_rearm, on_trig>>
    \/ ReplayReset
          /\ UNCHANGED <<zc_vars, dl_vars, ds_vars, fd_vars, on_min_samples, on_last, on_since, on_trans, on_gap, on_rearm, on_trig>>
    \/ (\E s \in Levels, env \in Levels : ReplayCall(s, env))
          /\ UNCHANGED <<zc_vars, dl_vars, ds_vars, fd_vars, on_min_samples, on_last, on_since, on_trans, on_gap, on_rearm, on_trig>>

SpecReplay == InitReplay /\ [][NextReplay]_vars

\* A dynamic_lowpass instance under arbitrary applies, queries and assignments.
InitLowpass == DlInit /\ DsIdle /\ FdIdle /\ ZcInit /\ zc_hysteresis = 0 /\ zc_min_samples = 0
               /\ OnsetInit /\ on_min_samples = 0 /\ ReplayInit

NextLowpass ==
    \/ (\E s \in Floats, a \in Coefficients : DlApply(s, a))
          /\ UNCHANGED <<zc_vars, on_vars, rp_vars, ds_vars, fd_vars>>
    \/ DlQuery /\ UNCHANGED <<zc_vars, on_vars, rp_vars, ds_vars, fd_vars>>
    \/ (\E v \in Floats : DlAssign(v)) /\ UNCHANGED <<zc_vars, on_vars, rp_vars, ds_vars, fd_vars>>

SpecLowpass == InitLowpass /\ [][NextLowpass]_vars

\* A dynamic_smoother instance under arbitrary samples and re-tunes.
InitSmoother == DsInit /\ DlIdle /\ FdIdle /\ ZcInit /\ zc_hysteresis = 0 /\ zc_min_samples = 0
                /\ OnsetInit /\ on_min_samples = 0 /\ ReplayInit

NextSmoother ==
    \/ (\E s \in SmootherSamples : DsCall(s)) /\ UNCHANGED <<zc_vars, on_vars, rp_vars, dl_vars, fd_vars>>
    \/ (\E wc \in Cutoffs : DsTune(wc)) /\ UNCHANGED <<zc_vars, on_vars, rp_vars, dl_vars, fd_vars>>

SpecSmoother == InitSmoother /\ [][NextSmoother]_vars

\* A zero_cross and an onset with the same min_samples, freshly constructed
\* and fed side by side: the same sample to both, an envelope to onset.
InitStartup ==
    /\ ZcInit /\ zc_hysteresis \in {-1, 0, 1}
    /\ OnsetInit /\ on_min_samples = zc_min_samples
    /\ ReplayInit /\ DlIdle /\ DsIdle /\ FdIdle

StartupCall(s, env) ==
    /\ st_calls <= MaxMinSamples + 1
    /\ ZeroCrossCall(s)
    /\ OnsetCall(s, env)
    /\ st_calls' = st_calls + 1
    /\ UNCHANGED <<ref, rp_phase, rp_out, dl_vars, ds_vars, fd_vars>>

NextStartup ==
    \/ \E s \in Levels, env \in Levels : StartupCall(s, env)
    \/ OnsetReset /\ UNCHANGED <<zc_vars, rp_vars, dl_vars, ds_vars, fd_vars>>

SpecStartup == InitStartup /\ [][NextStartup]_vars

\* A fast_downsample instance under arbitrary sample pairs.
InitDownsample == FdInit /\ DlIdle /\ DsIdle /\ ZcInit /\ zc_hysteresis = 0 /\ zc_min_samples = 0
                  /\ OnsetInit /\ on_min_samples = 0 /\ ReplayInit

NextDownsample ==
    (\E s1 \in SampleRange(fd_signed), s2 \in SampleRange(fd_signed) : FdCall(s1, s2))
        /\ UNCHANGED <<zc_vars, on_vars, rp_vars, dl_vars, ds_vars>>

SpecDownsample == InitDownsample /\ [][NextDownsample]_vars

\* ------------------------------------------------------ zero_cross claims

\* C1: zero_cross debounce.  Whenever edge() is true after a call of
\* operator() and was true after an earlier call, the two calls are at least
\* min_samples calls apart.
C1_ZeroCrossDebounce ==
    (zc_last.op = "call" /\ edge /\ zc_gap # -1) => zc_gap >= zc_min_samples

\* C1 witness: two reported transitions as close together as the code allows,
\* with a debounce window of at least two samples.
C1_Witness ==
    /\ zc_last.op = "call" /\ edge
    /\ zc_min_samples >= 2
    /\ zc_gap = zc_min_samples + 1

\* C2: zero_cross transition rule.  Outside the debounce window the state goes
\* low->high exactly when sample > +hysteresis in state low, high->low exactly
\* when sample < -hysteresis in state high, and the counter is then 0; in every
\* other case the state is unchanged and the counter is one more than before.
\* The returned value is the post-call state.
C2_ZeroCrossTransitionRule ==
    zc_last.op = "call" =>
        LET s      == zc_last.s
            was    == zc_last.pre_state
            past   == zc_last.pre_count >= zc_min_samples
            up     == past /\ ~was /\ s > zc_hysteresis
            down   == past /\ was /\ s < -zc_hysteresis
        IN  /\ zc_last.ret = (IF zc_state THEN 1 ELSE 0)
            /\ up => (zc_state /\ zc_count = 0)
            /\ down => (~zc_state /\ zc_count = 0)
            /\ (~up /\ ~down) => (zc_state = was /\ zc_count = zc_last.pre_count + 1)

\* C2 witness: a high->low flip after a completed debounce window.
C2_Witness ==
    /\ zc_last.op = "call"
    /\ zc_min_samples > 0
    /\ zc_last.pre_count >= zc_min_samples
    /\ zc_last.pre_state /\ zc_last.s < -zc_hysteresis
    /\ ~zc_state /\ zc_count = 0

\* C3: zero_cross hysteresis band.  With hysteresis > 0, as long as every
\* sample since some call lies strictly between -hysteresis and +hysteresis
\* the state stays what it was before the first of them and edge() is false.
C3_ZeroCrossBand ==
    (zc_hysteresis > 0 /\ zc_band.len > 0) => (zc_state = zc_band.start /\ ~edge)

\* C3 witness: in state high, two in-band samples tested outside the window,
\* the last of them negative.
C3_Witness ==
    /\ zc_hysteresis > 0
    /\ zc_band.len >= 2 /\ zc_band.start
    /\ zc_last.pre_count >= zc_min_samples
    /\ zc_last.s < 0
    /\ zc_state

\* C4 as stated: edge() is true iff the most recently processed sample caused
\* a state transition, in every reachable state, the fresh one included.
C4_EdgeIffTransition ==
    edge <=> (zc_last.op = "call" /\ zc_state # zc_last.pre_state)

\* C4 amended: edge() is true iff no sample has been processed yet or the most
\* recently processed sample caused a state transition.
C4_EdgeIffFreshOrTransition ==
    edge <=> (zc_last.op = "none" \/ (zc_last.op = "call" /\ zc_state # zc_last.pre_state))

\* C4 witness: a transition on a later call reports an edge.
C4_Witness ==
    /\ zc_last.op = "call"
    /\ zc_last.pre_count > 0
    /\ zc_state # zc_last.pre_state
    /\ edge

\* ----------------------------------------------------------- onset claims

\* C5: onset state machine.  On a call outside the debounce window: (a) quiet,
\* detector fires and sample > current_peak: the state becomes active,
\* current_peak the sample, the counter 0; (b) active and the detector does not
\* fire: the state becomes quiet, the counter 0, current_peak is unchanged;
\* (c) otherwise state and current_peak are unchanged and the counter is not
\* reset (it is one more than before).
C5_OnsetStateMachine ==
    (on_last.op = "call" /\ on_last.pre_count >= on_min_samples) =>
        LET a == ~on_last.pre_state /\ on_last.pk /\ on_last.s > on_last.pre_peak
            b == on_last.pre_state /\ ~on_last.pk
        IN  /\ a => (on.state /\ on.peak = on_last.s /\ on.count = 0)
            /\ b => (~on.state /\ on.count = 0 /\ on.peak = on_last.pre_peak)
            /\ (~a /\ ~b) => /\ on.state = on_last.pre_state
                             /\ on.peak = on_last.pre_peak
                             /\ on.count = on_last.pre_count + 1

\* C5 witness: after a completed debounce window, quiet with the detector
\* firing on a sample equal to the latched peak: case (c), nothing latched.
C5_Witness ==
    /\ on_last.op = "call"
    /\ on_min_samples > 0
    /\ on_last.pre_count >= on_min_samples
    /\ ~on_last.pre_state /\ on_last.pk
    /\ on_last.pre_peak > 0 /\ on_last.s = on_last.pre_peak
    /\ ~on.state /\ on.count = on_last.pre_count + 1

\* C6: onset latch monotonicity.  peak_val() never decreases across an
\* operator() call; it changes across one only when the call moves the state
\* from quiet to active, and then to the sample, which is strictly greater
\* than the old value.  Only reset() lowers it.
C6_OnsetLatchMonotone ==
    /\ on_last.op = "call" =>
         /\ peak_val >= on_last.pre_peak
         /\ peak_val # on_last.pre_peak =>
              /\ ~on_last.pre_state /\ on.state
              /\ peak_val = on_last.s
              /\ on_last.s > on_last.pre_peak
    /\ peak_val < on_last.pre_peak => on_last.op = "reset"

\* C6 witness: a second onset latches a greater peak over an earlier one.
C6_Witness ==
    /\ on_last.op = "call"
    /\ on_last.pre_peak > 0
    /\ peak_val > on_last.pre_peak
    /\ on_gap # -1

\* C7: onset re-entry suppression.  A call with a sample <= the latched peak
\* changes neither current_peak nor the state from quiet to active, whether or
\* not the detector fires on it; and a call made in state active never changes
\* current_peak.
C7_OnsetReentrySuppressed ==
    on_last.op = "call" =>
        /\ on_last.s <= on_last.pre_peak =>
             /\ on.peak = on_last.pre_peak
             /\ ~(~on_last.pre_state /\ on.state)
        /\ on_last.pre_state => on.peak = on_last.pre_peak

\* C7 witness: an onset latched p > 0, a dip returned the state to quiet, and
\* the detector now fires, outside the debounce window, on a sample equal to p.
C7_Witness ==
    /\ on_last.op = "call"
    /\ on_last.pre_count >= on_min_samples
    /\ on_gap # -1 /\ ~on_trans
    /\ ~on_last.pre_state /\ ~on_last.pre_y /\ on_last.pk
    /\ on_last.pre_peak > 0 /\ on_last.s = on_last.pre_peak
    /\ ~on.state

\* C8 as stated: right after reset() peak_val() is 0, and the next processed
\* sample that qualifies after a reset() latches: after that call peak_val()
\* is that sample, whatever state, counter and comparator were at the reset.
C8_ResetRearms ==
    /\ on_last.op = "reset" => peak_val = 0
    /\ on_rearm = "fired" => peak_val = on_last.s

\* C9: onset debounce.  Each of the min_samples calls that follow a state
\* transition returns the state that transition set, and two state
\* transitions are more than min_samples calls apart.
C9_OnsetDebounce ==
    /\ (on_last.op = "call" /\ on_since >= 1 /\ on_since <= on_min_samples) =>
           on_last.ret = on_trans
    /\ (on_since = 0 /\ on_gap # -1) => on_gap > on_min_samples

\* C9 witness: the last call of a debounce window of at least two samples
\* that follows an active->quiet transition, with the detector's inputs
\* asking for a new onset.
C9_Witness ==
    /\ on_last.op = "call"
    /\ on_min_samples >= 2 /\ on_since = on_min_samples
    /\ on_gap # -1 /\ ~on_trans
    /\ Qualifies(on_last.s, on_last.env) /\ on_last.s > on.peak
    /\ ~on_last.ret

\* C10 as stated: a used and then reset() onset instance returns, for every
\* sample fed to it from then on, what a freshly constructed instance with the
\* same configuration returns for the same samples.
C10_ReplayDeterminism ==
    rp_phase = "replay" => rp_out[1] = rp_out[2]

\* ------------------------------------------------ dynamic_smoother claims

\* C11 as stated: on every call of dynamic_smoother::operator(), for every
\* configuration, the gain g computed in that call satisfies g0 <= g <= 1.
C11_GainBound ==
    ds_last.op = "call" => (ds_last.pre.g0 <= ds_last.g /\ ds_last.g <= One)

\* C11 amended: on every call g <= 1; g0 <= g when g0 <= 1 and the
\* sensitivity is not negative; with g0 > 1 and a sensitivity that is not
\* negative the clamp makes g = 1, which is below g0.
C11_GainBoundForG0AtMostOne ==
    ds_last.op = "call" =>
        /\ ds_last.g <= One
        /\ (ds_last.pre.g0 <= One /\ ds_last.pre.sense >= 0) => ds_last.pre.g0 <= ds_last.g
        /\ (ds_last.pre.g0 > One /\ ds_last.pre.sense >= 0) => ds_last.g = One

\* C11 witness: a call in which the bandpass term raised the gain above a
\* base gain below 1.
C11_Witness ==
    /\ ds_last.op = "call"
    /\ ds_last.pre.g0 < One
    /\ ds_last.pre.low1 # ds_last.pre.low2
    /\ ds_last.g > ds_last.pre.g0

\* C12: dynamic_smoother one-sample output lag.  A call returns the low2 held
\* before it, so the first call on a fresh instance returns 0, and its gain is
\* computed from the low1 and low2 held before it.
C12_OutputLag ==
    ds_last.op = "call" =>
        /\ ds_last.ret = ds_last.pre.low2
        /\ ds_calls = 1 => ds_last.ret = 0
        /\ LET band == Abs(FSub(ds_last.pre.low1, ds_last.pre.low2))
               raw  == FAdd(ds_last.pre.g0, FMul(ds_last.pre.sense, band))
           IN  ds_last.g = (IF raw > One THEN One ELSE raw)

\* C12 witness: a later call returns a non-zero value that the call itself
\* then replaced in low2.
C12_Witness ==
    /\ ds_last.op = "call"
    /\ ds_calls = 2
    /\ ds_last.ret # 0
    /\ ds.low2 # ds_last.ret

\* C16: dynamic_smoother re-tune frame.  base_frequency changes only wc and
\* g0 and leaves low1, low2 and sense as they were; g0 is always the base gain
\* of the current wc; the call that follows a re-tune returns what it would
\* have returned on the instance as it was before the re-tune.
C16_RetuneFrame ==
    /\ ds_last.op = "tune" =>
         /\ ds.low1 = ds_last.pre.low1
         /\ ds.low2 = ds_last.pre.low2
         /\ ds.sense = ds_last.pre.sense
    /\ ds.g0 = FDiv(FMul(2 * One, TanPi(ds.wc)), FAdd(One, TanPi(ds.wc)))
    /\ ds_last.op = "call" => ds_last.ret = ds_last.ret_before

\* C16 witness: a call that followed a re-tune to another base gain and
\* returned a non-zero value.
C16_Witness ==
    /\ ds_last.op = "call"
    /\ ds_last.tuned
    /\ ds_last.pre.g0 # ds_last.g0_before
    /\ ds_last.ret # 0
    /\ ds.low2 # ds_last.ret

\* ------------------------------------------------- dynamic_lowpass claims

\* C17 as stated: apply(s, a) sets y to y + a*(s - y) and returns the new y,
\* so a = 1 returns s and a = 0 returns the old y; the query leaves y alone and
\* returns the value of the most recent apply or assignment (0 when fresh);
\* assignment sets y to the given value.
C17_LowpassOperations ==
    /\ dl_last.op = "apply" =>
         /\ dl_last.ret = dl_y
         /\ dl_y = FAdd(dl_last.pre_y, FMul(dl_last.a, FSub(dl_last.s, dl_last.pre_y)))
         /\ dl_last.a = One => dl_last.ret = dl_last.s
         /\ dl_last.a = 0 => dl_last.ret = dl_last.pre_y
    /\ dl_last.op = "query" => (dl_y = dl_last.pre_y /\ dl_last.ret = dl_set)
    /\ dl_last.op = "assign" => dl_y = dl_last.s
    /\ dl_last.op = "none" => dl_y = 0

\* C17 amended: as stated, but a = 1 returns s only when s - y is exactly
\* representable; and when s - y, a*(s - y) and the sum are all exactly
\* representable the new y is exactly y + a*(s - y).
C17_LowpassOperationsRounded ==
    /\ dl_last.op = "apply" =>
         LET diff == dl_last.s - dl_last.pre_y
         IN  /\ dl_last.ret = dl_y
             /\ dl_y = FAdd(dl_last.pre_y, FMul(dl_last.a, FSub(dl_last.s, dl_last.pre_y)))
             /\ (dl_last.a = One /\ Representable(diff)) => dl_last.ret = dl_last.s
             /\ dl_last.a = 0 => dl_last.ret = dl_last.pre_y
             /\ ( /\ Representable(diff)
                  /\ (dl_last.a * diff) % One = 0
                  /\ Representable((dl_last.a * diff) \div One)
                  /\ Representable(dl_last.pre_y + (dl_last.a * diff) \div One) )
                => dl_y = dl_last.pre_y + (dl_last.a * diff) \div One
    /\ dl_last.op = "query" => (dl_y = dl_last.pre_y /\ dl_last.ret = dl_set)
    /\ dl_last.op = "assign" => dl_y = dl_last.s
    /\ dl_last.op = "none" => dl_y = 0

\* C17 witness: apply with a = 1 on a difference s - y that is not
\* representable returns a value other than s.
C17_Witness ==
    /\ dl_last.op = "apply"
    /\ dl_last.a = One
    /\ ~Representable(dl_last.s - dl_last.pre_y)
    /\ dl_last.ret # dl_last.s

\* ------------------------------------------------- fast_downsample claims

\* C13 as stated: on a constant stream s1 = s2 = v the output equals v from
\* some call on.  The output of such a stream no longer changes after its
\* second call, so it equals v from some call on only if it does there.
C13_DCGainExact ==
    (fd_last.op = "call" /\ fd_run.len = 2) => fd_last.out = fd_run.v

\* C13 amended: from the second call of a constant stream of value v on, the
\* output is (v >> 1) + 2*(v >> 2): at most v, at least v - 2, and v exactly
\* when v is a multiple of 4.
C13_DCGainTruncated ==
    (fd_last.op = "call" /\ fd_run.len = 2) =>
        LET v == fd_run.v
        IN  /\ fd_last.out = (v \div 2) + 2 * (v \div 4)
            /\ fd_last.out <= v /\ v - fd_last.out <= 2
            /\ (fd_last.out = v) <=> (v % 4 = 0)

\* C13 witness: a constant stream of a negative value that is not a multiple
\* of 4 has settled two below it.
C13_Witness ==
    /\ fd_last.op = "call" /\ fd_run.len = 2
    /\ fd_run.v < 0 /\ fd_run.v % 4 = 3
    /\ fd_last.out = fd_run.v - 2

\* C15: fast_downsample recurrence.  The output of a call is the quarter of
\* the previous call's s2 (0 on a fresh instance) plus half of s1 plus the
\* quarter of s2, and x is then the quarter of this call's s2.
C15_Recurrence ==
    fd_last.op = "call" =>
        /\ fd_last.out =
             (IF fd_prev.set THEN fd_prev.s2 \div 4 ELSE 0)
               + (fd_last.s1 \div 2) + (fd_last.s2 \div 4)
        /\ fd_x = fd_last.s2 \div 4

\* C15 witness: a call whose carried quarter and half term are non-zero and
\* whose previous s2 has another quarter than its own.
C15_Witness ==
    /\ fd_last.op = "call" /\ fd_prev.set
    /\ fd_prev.s2 \div 4 # 0 /\ fd_last.s1 \div 2 # 0
    /\ fd_prev.s2 \div 4 # fd_last.s2 \div 4
    /\ fd_x = fd_last.s2 \div 4

\* ------------------------------------------ zero_cross claims, continued

\* C14 as stated: with hysteresis <= 0 and min_samples = 0 the state is high
\* after any sample > 0 and low after any sample < 0.
C14_SignComparator ==
    (zc_last.op = "call" /\ zc_hysteresis <= 0 /\ zc_min_samples = 0) =>
        /\ zc_last.s > 0 => zc_state
        /\ zc_last.s < 0 => ~zc_state

\* C14 amended: that holds with hysteresis = 0, and with hysteresis < 0 for
\* the samples of magnitude at least |hysteresis|; with hysteresis < 0 a
\* sample of magnitude below |hysteresis| inverts the state whatever its sign.
C14_SignComparatorOutsideBand ==
    (zc_last.op = "call" /\ zc_hysteresis <= 0 /\ zc_min_samples = 0) =>
        LET s   == zc_last.s
            mag == IF s < 0 THEN -s ELSE s
        IN  /\ (mag >= -zc_hysteresis /\ s > 0) => zc_state
            /\ (mag >= -zc_hysteresis /\ s < 0) => ~zc_state
            /\ mag < -zc_hysteresis => zc_state # zc_last.pre_state

\* C14 witness: with a negative hysteresis and no debounce, a negative sample
\* of magnitude |hysteresis| takes the state from high to low.
C14_Witness ==
    /\ zc_last.op = "call"
    /\ zc_hysteresis < 0 /\ zc_min_samples = 0
    /\ zc_last.s = zc_hysteresis
    /\ zc_last.pre_state /\ ~zc_state

\* ------------------------------------------------ start-up and onset frame

\* C18: start-up debounce.  On a freshly constructed zero_cross and onset
\* with min_samples = k each of the first k calls returns low / false whatever
\* the samples are, and no call before call k + 1 changes the state.
C18_StartupDebounce ==
    /\ (zc_last.op = "call" /\ st_calls <= zc_min_samples) => (zc_last.ret = 0 /\ ~zc_state)
    /\ (zc_last.op = "call" /\ zc_state # zc_last.pre_state) => st_calls >= zc_min_samples + 1
    /\ (on_last.op = "call" /\ st_calls <= on_min_samples) => (~on_last.ret /\ ~on.state)
    /\ (on_last.op = "call" /\ on.state # on_last.pre_state) => st_calls >= on_min_samples + 1

\* C18 witness: with a window of at least two samples, call k + 1 is the
\* first to raise both detectors, after k calls fed the same sample.
C18_Witness ==
    /\ zc_min_samples >= 2
    /\ st_calls = zc_min_samples + 1
    /\ zc_last.op = "call" /\ on_last.op = "call"
    /\ ~zc_last.pre_state /\ zc_state
    /\ ~on_last.pre_state /\ on.state

\* C19: debounce frame of onset.  A call made while the counter is below
\* min_samples only increments the counter: the state, current_peak and the
\* comparator of the peak detector are as they were, whatever the sample and
\* the envelope.
C19_OnsetDebounceFrame ==
    (on_last.op = "call" /\ on_last.pre_count < on_min_samples) =>
        /\ on.state = on_last.pre_state
        /\ on.peak = on_last.pre_peak
        /\ on.y = on_last.pre_y
        /\ on.count = on_last.pre_count + 1
        /\ on_last.ret = on_last.pre_state

\* C19 witness: a debounced call in state active with the comparator high,
\* fed a sample far enough below the drooped envelope to release it.
C19_Witness ==
    /\ on_last.op = "call"
    /\ on_last.pre_count < on_min_samples
    /\ on_last.pre_state /\ on_last.pre_y
    /\ DroopDen * on_last.s < DroopNum * on_last.env - DroopDen * OnsetHysteresis
    /\ on.y /\ on.state

\* C20: non-negativity of the onset latch.  peak_val() >= 0 in every state; no
\* quiet->active transition happens on a sample <= 0; between two reset()
\* calls the samples of successive quiet->active transitions strictly increase.
C20_LatchNonNegative ==
    /\ peak_val >= 0
    /\ (on_last.op = "call" /\ ~on_last.pre_state /\ on.state) => on_last.s > 0
    /\ on_trig.n = 2 => on_trig.cur > on_trig.prev

\* C20 witness: a second quiet->active transition since the last reset().
C20_Witness ==
    /\ on_last.op = "call" /\ ~on_last.pre_state /\ on.state
    /\ on_trig.n = 2
    /\ on_trig.prev > 0

====
